---- MODULE Spec2Model ----
(***************************************************************************)
(* A model of git-compare: the status parser of GitService, the tree       *)
(* builder of GitCompareProvider (insertFile, collapsesingles,             *)
(* getSortedChildren), the asynchronous root enumeration (getChildren /    *)
(* buildTree) and the gitCompare.openDiff command.                         *)
(*                                                                         *)
(* Strings are sequences of one-character strings, so that split, join,    *)
(* basename, trim and template concatenation are computed, not assumed.    *)
(***************************************************************************)
EXTENDS Integers, Sequences, FiniteSets, TLC

VARIABLES
  files,         \* SpecTree: the ChangedFile[] handed to the tree builder
  pc,            \* SpecTree: position of the builder run
  rootFolder,    \* GitCompareProvider.rootFolder
  firstPass,     \* SpecTree: the tree as it was after the first collapse pass
  element,       \* SpecTree: key path of the folder last given to getChildren
  sorted,        \* SpecTree: the array getChildren last returned
  lines,         \* SpecParse: the status lines git prints
  stdout,        \* SpecParse: the text of those lines, as the process wrote it
  output,        \* SpecParse: what exec resolved with
  records,       \* SpecParse: the ChangedFile[] getChangedFiles returns
  ppc,           \* SpecParse: position of the getChangedFiles call
  baseBranch,    \* GitCompareProvider.baseBranch
  treeChanged,   \* onDidChangeTreeData fired and the view has not asked again yet
  builds,        \* the getChildren() calls suspended in buildTree, by slot
  lastBuilt,     \* history: the root's children after the last successful build
  lastDone,      \* history: the records returned to the build that finished last
  lastEvent,     \* history: how the last finished getChildren() ended
  openDiff,      \* the gitCompare.openDiff command in flight
  openResult     \* what the last gitCompare.openDiff command did

treeVars == <<files, pc, firstPass, element, sorted>>
parseVars == <<lines, stdout, output, records, ppc>>

provVars == <<baseBranch, treeChanged, builds, lastBuilt, lastDone, lastEvent>>
diffVars == <<openDiff, openResult>>

vars == <<rootFolder, treeVars, parseVars, provVars, diffVars>>

-----------------------------------------------------------------------------
(* Bounds *)

MaxDepth == 3      \* segments per changed path
MaxFiles == 2      \* change records per query result
MaxLines == 2      \* lines of status output
MaxBuilds == 2     \* getChildren() calls in flight at once
MaxQuery == 1      \* change records per query result of the provider

-----------------------------------------------------------------------------
(* Strings *)

Slash == "/"
Tab == "\t"
Newline == "\n"
Space == " "

\* JavaScript's undefined, where a string was expected
Undefined == <<"undefined">>

\* Collation order of the characters the model uses
CharOrder == <<" ", "\t", "\n", "/", ">", "0", "1", "2", "A", "C", "D", "M", "R", "a", "b", "c", "o">>

CharRank(c) == CHOOSE i \in 1..Len(CharOrder) : CharOrder[i] = c

RECURSIVE localeCompare(_, _)
localeCompare(s, t) ==
  IF s = <<>> /\ t = <<>> THEN 0
  ELSE IF s = <<>> THEN -1
  ELSE IF t = <<>> THEN 1
  ELSE IF CharRank(Head(s)) < CharRank(Head(t)) THEN -1
  ELSE IF CharRank(Head(s)) > CharRank(Head(t)) THEN 1
  ELSE localeCompare(Tail(s), Tail(t))

RECURSIVE Split(_, _)
Split(s, sep) ==
  IF \A i \in 1..Len(s) : s[i] # sep THEN <<s>>
  ELSE LET i == CHOOSE k \in 1..Len(s) :
                  s[k] = sep /\ \A j \in 1..(k - 1) : s[j] # sep
       IN  <<SubSeq(s, 1, i - 1)>> \o Split(SubSeq(s, i + 1, Len(s)), sep)

RECURSIVE Join(_, _)
Join(parts, sep) ==
  IF parts = <<>> THEN <<>>
  ELSE IF Len(parts) = 1 THEN parts[1]
  ELSE parts[1] \o <<sep>> \o Join(Tail(parts), sep)

RECURSIVE StripTrailingSlashes(_)
StripTrailingSlashes(s) ==
  IF s # <<>> /\ s[Len(s)] = Slash
  THEN StripTrailingSlashes(SubSeq(s, 1, Len(s) - 1))
  ELSE s

\* path.basename (posix): the part after the last slash, trailing slashes dropped
Basename(p) ==
  LET q == StripTrailingSlashes(p)
      parts == Split(q, Slash)
  IN  parts[Len(parts)]

-----------------------------------------------------------------------------
(* exec and the status parser of getChangedFiles *)

IsWhitespace(c) == c \in {Space, Tab, Newline}

RECURSIVE TrimStart(_)
TrimStart(s) ==
  IF s # <<>> /\ IsWhitespace(Head(s)) THEN TrimStart(Tail(s)) ELSE s

RECURSIVE TrimEnd(_)
TrimEnd(s) ==
  IF s # <<>> /\ IsWhitespace(s[Len(s)])
  THEN TrimEnd(SubSeq(s, 1, Len(s) - 1))
  ELSE s

\* String.prototype.trim, applied to stdout when exec resolves
Trim(s) == TrimEnd(TrimStart(s))

\* parts[k], undefined past the end of the array
Part(parts, k) == IF k + 1 <= Len(parts) THEN parts[k + 1] ELSE Undefined

\* rawStatus[0]
FirstChar(s) == IF s = <<>> THEN Undefined ELSE s[1]

StartsWith(s, c) == s # <<>> /\ s[1] = c

IsRenameOrCopyMut(rawStatus) == rawStatus = <<"R">> \/ rawStatus = <<"C">>

\* the test of line 58
IsRenameOrCopy(rawStatus) == StartsWith(rawStatus, "R") \/ StartsWith(rawStatus, "C")

\* the callback of lines 53-70
ParseLine(line) ==
  LET parts == Split(line, Tab)
      rawStatus == parts[1]
  IN  IF IsRenameOrCopy(rawStatus)
      THEN [status |-> FirstChar(rawStatus), oldPath |-> Part(parts, 1),
            path |-> Part(parts, 2)]
      ELSE [status |-> FirstChar(rawStatus), path |-> Part(parts, 1)]

\* lines 49-70
ParseOutput(out) ==
  IF out = <<>> THEN <<>>
  ELSE LET ls == Split(out, Newline)
       IN  [i \in 1..Len(ls) |-> ParseLine(ls[i])]

-----------------------------------------------------------------------------
(* Tree nodes.  A Map is a sequence of entries in insertion order. *)

FileNode(relativePath, status, oldPath) ==
  [type |-> "file", relativePath |-> relativePath, status |-> status,
   oldPath |-> oldPath]

FolderNode(folderPath) ==
  [type |-> "folder", folderPath |-> folderPath, children |-> <<>>]

Arrow == <<" ", ">", " ">>

FileLabel(n) ==
  LET name == Basename(n.relativePath)
  IN  IF n.oldPath # Undefined /\ n.oldPath # <<>>
      THEN Basename(n.oldPath) \o Arrow \o name
      ELSE name

FolderLabel(n) ==
  IF Basename(n.folderPath) # <<>> THEN Basename(n.folderPath) ELSE n.folderPath

Label(n) == IF n.type = "folder" THEN FolderLabel(n) ELSE FileLabel(n)

MapHas(m, k) == \E i \in 1..Len(m) : m[i].key = k

MapIndex(m, k) == CHOOSE i \in 1..Len(m) : m[i].key = k

MapGet(m, k) == m[MapIndex(m, k)].node

MapSet(m, k, n) ==
  IF MapHas(m, k)
  THEN [m EXCEPT ![MapIndex(m, k)] = [key |-> k, node |-> n]]
  ELSE Append(m, [key |-> k, node |-> n])

MapDelete(m, k) ==
  IF MapHas(m, k)
  THEN LET i == MapIndex(m, k)
       IN  SubSeq(m, 1, i - 1) \o SubSeq(m, i + 1, Len(m))
  ELSE m

-----------------------------------------------------------------------------
(* insertFile *)

\* the folder the walk continues in: the existing folder child, or a new one
WalkChild(current, segments, i) ==
  IF MapHas(current.children, segments[i])
     /\ MapGet(current.children, segments[i]).type = "folder"
  THEN MapGet(current.children, segments[i])
  ELSE FolderNode(Join(SubSeq(segments, 1, i), Slash))

RECURSIVE InsertAt(_, _, _, _)
InsertAt(current, segments, i, file) ==
  IF i < Len(segments)
  THEN [current EXCEPT !.children =
          MapSet(current.children, segments[i],
                 InsertAt(WalkChild(current, segments, i), segments, i + 1, file))]
  ELSE [current EXCEPT !.children =
          MapSet(current.children, segments[Len(segments)],
                 FileNode(file.path, file.status,
                          IF "oldPath" \in DOMAIN file THEN file.oldPath
                          ELSE Undefined))]

insertFile(root, file) == InsertAt(root, Split(file.path, Slash), 1, file)

RECURSIVE InsertAll(_, _)
InsertAll(root, fs) ==
  IF fs = <<>> THEN root
  ELSE InsertAll(insertFile(root, Head(fs)), Tail(fs))

-----------------------------------------------------------------------------
(* collapsesingles *)

MergedKeyMut(key, grandchildKey) == grandchildKey

\* line 179
MergedKey(key, grandchildKey) == key \o <<Slash>> \o grandchildKey

\* the test of lines 174-176
ShouldMerge(child) ==
  /\ Len(child.children) = 1
  /\ child.children[1].node.type = "folder"

\* lines 177-178
MergedNode(grandchild) ==
  [FolderNode(grandchild.folderPath) EXCEPT !.children = grandchild.children]

RECURSIVE collapsesingles(_)
RECURSIVE CollapseLoop(_, _)

CollapsedChildMut(child) == child

\* the recursive call of line 172
CollapsedChild(child) == collapsesingles(child)

\* The for-of loop over folder.children from its i-th entry on.  A Map
\* iterator is live: a deleted entry is skipped, an entry appended during
\* the loop is visited, an entry overwritten in place keeps its position.
CollapseLoop(children, i) ==
  IF i > Len(children) THEN children
  ELSE LET key == children[i].key
           child == children[i].node
       IN  IF child.type # "folder" THEN CollapseLoop(children, i + 1)
           ELSE LET c == CollapsedChild(child)
                    kept == [children EXCEPT ![i].node = c]
                IN  IF ShouldMerge(c)
                    THEN CollapseLoop(
                           MapSet(MapDelete(kept, key),
                                  MergedKey(key, c.children[1].key),
                                  MergedNode(c.children[1].node)),
                           i)
                    ELSE CollapseLoop(kept, i + 1)

collapsesingles(folder) ==
  [folder EXCEPT !.children = CollapseLoop(folder.children, 1)]

-----------------------------------------------------------------------------
(* getSortedChildren *)

CompareMut(a, b) == localeCompare(Label(a), Label(b))

\* the comparator of lines 119-124
Compare(a, b) ==
  IF a.type # b.type
  THEN (IF a.type = "folder" THEN -1 ELSE 1)
  ELSE localeCompare(Label(a), Label(b))

\* Array.prototype.sort is stable: insert x after the last element not above it
RECURSIVE InsertSorted(_, _)
InsertSorted(arr, x) ==
  IF arr = <<>> THEN <<x>>
  ELSE IF Compare(arr[Len(arr)], x) <= 0 THEN Append(arr, x)
  ELSE Append(InsertSorted(SubSeq(arr, 1, Len(arr) - 1), x), arr[Len(arr)])

RECURSIVE SortArray(_)
SortArray(arr) ==
  IF arr = <<>> THEN <<>>
  ELSE InsertSorted(SortArray(SubSeq(arr, 1, Len(arr) - 1)), arr[Len(arr)])

\* Array.from(folder.children.values())
Values(m) == [i \in 1..Len(m) |-> m[i].node]

getSortedChildren(folder) == SortArray(Values(folder.children))

-----------------------------------------------------------------------------
(* Walking a tree *)

\* all nodes below a folder, each with the child-mapping keys leading to it
RECURSIVE NodesBelow(_, _)
NodesBelow(folder, keys) ==
  UNION { LET e == folder.children[i]
              here == [keys |-> Append(keys, e.key), node |-> e.node]
          IN  IF e.node.type = "folder"
              THEN {here} \cup NodesBelow(e.node, here.keys)
              ELSE {here}
          : i \in 1..Len(folder.children) }

Nodes(root) == NodesBelow(root, <<>>)

FoldersOf(root) == { n \in Nodes(root) : n.node.type = "folder" }

LeavesOf(root) == { n \in Nodes(root) : n.node.type = "file" }

\* the change record a FileNode wraps
RecordOf(n) ==
  IF n.oldPath = Undefined
  THEN [status |-> n.status, path |-> n.relativePath]
  ELSE [status |-> n.status, oldPath |-> n.oldPath, path |-> n.relativePath]

-----------------------------------------------------------------------------
(* Inputs of the tree builder *)

SegNames == {"a", "b"}

RECURSIVE SegSeqs(_)
SegSeqs(n) ==
  IF n = 0 THEN {<<>>}
  ELSE SegSeqs(n - 1)
       \cup { Append(s, c) : s \in { t \in SegSeqs(n - 1) : Len(t) = n - 1 },
                             c \in SegNames }

\* the two paths of the single-child-chain example: a/b/c/1 and a/b/c/2
ChainPaths ==
  { <<"a", "/", "b", "/", "c", "/", "1">>, <<"a", "/", "b", "/", "c", "/", "2">> }

\* repository-relative paths of one to MaxDepth one-letter segments, and the
\* chain example
Paths ==
  { Join([i \in 1..Len(s) |-> <<s[i]>>], Slash) : s \in SegSeqs(MaxDepth) \ {<<>>} }
  \cup ChainPaths

OldName == <<"o">>

\* modified files anywhere, renamed files at the top level
Records ==
  { [status |-> "M", path |-> p] : p \in Paths }
  \cup { [status |-> "R", oldPath |-> OldName, path |-> p] :
         p \in { q \in Paths : Len(q) = 1 } }

RECURSIVE Lists(_, _)
Lists(S, n) ==
  IF n = 0 THEN {<<>>}
  ELSE Lists(S, n - 1)
       \cup { Append(l, x) : l \in { t \in Lists(S, n - 1) : Len(t) = n - 1 },
                             x \in S }

FileLists == Lists(Records, MaxFiles)

-----------------------------------------------------------------------------
(* SpecTree: the tree builder applied to one list of change records *)

ParseIdle ==
  /\ lines = <<>>
  /\ stdout = <<>>
  /\ output = <<>>
  /\ records = <<>>
  /\ ppc = "off"

Branches == {"main", "dev"}

NoBuild == [pc |-> "idle", base |-> "", attempts |-> 0, mbFailed |-> FALSE,
            ref |-> "", overlapped |-> FALSE]

NoEvent == [kind |-> "none", overlapped |-> FALSE, warnings |-> 0]

ProvIdle ==
  /\ baseBranch = "main"
  /\ treeChanged = FALSE
  /\ builds = [b \in 1..MaxBuilds |-> NoBuild]
  /\ lastBuilt = <<>>
  /\ lastDone = <<>>
  /\ lastEvent = NoEvent

NoOpen == [pc |-> "idle"]

NoResult == [kind |-> "none"]

DiffIdle ==
  /\ openDiff = NoOpen
  /\ openResult = NoResult

TreeIdle ==
  /\ files = <<>>
  /\ pc = "off"
  /\ firstPass = FolderNode(<<>>)
  /\ element = <<>>
  /\ sorted = <<>>

TreeInit ==
  /\ ParseIdle
  /\ ProvIdle
  /\ DiffIdle
  /\ files \in FileLists
  /\ pc = "start"
  /\ rootFolder = FolderNode(<<>>)
  /\ firstPass = FolderNode(<<>>)
  /\ element = <<>>
  /\ sorted = <<>>

\* buildTree with the query answered by `files`
TreeBuild ==
  /\ pc = "start"
  /\ rootFolder' = collapsesingles(InsertAll(FolderNode(<<>>), files))
  /\ firstPass' = rootFolder'
  /\ pc' = "built"
  /\ UNCHANGED <<files, element, sorted, parseVars, provVars, diffVars>>

\* a second collapse pass over the collapsed tree
TreeCollapseAgain ==
  /\ pc = "built"
  /\ rootFolder' = collapsesingles(rootFolder)
  /\ pc' = "recollapsed"
  /\ UNCHANGED <<files, firstPass, element, sorted, parseVars, provVars, diffVars>>

\* getChildren(element) for a folder of the tree (the root included)
TreeGetChildren ==
  /\ pc \in {"built", "listed"}
  /\ \E f \in FoldersOf(rootFolder) \cup {[keys |-> <<>>, node |-> rootFolder]} :
       /\ element' = f.keys
       /\ sorted' = getSortedChildren(f.node)
  /\ pc' = "listed"
  /\ UNCHANGED <<files, rootFolder, firstPass, parseVars, provVars, diffVars>>

TreeNext == TreeBuild \/ TreeCollapseAgain \/ TreeGetChildren

SpecTree == TreeInit /\ [][TreeNext]_vars

-----------------------------------------------------------------------------
(* SpecParse: git diff --name-status output, through exec, to change records *)

ParsePaths == { <<"a">>, <<"a", "/", "b">> }

\* similarity scores git prints after R and C
Scores == { <<"1", "0", "0">>, <<"0", "1", "0">> }

StatusLines ==
  { [code |-> c, score |-> <<>>, path |-> p] : c \in {"M", "D"}, p \in ParsePaths }
  \cup { [code |-> c, score |-> sc, oldPath |-> o, path |-> p] :
         c \in {"R", "C"}, sc \in Scores, o \in ParsePaths, p \in ParsePaths }

\* one line as git writes it, newline-terminated
FormatLine(l) ==
  <<l.code>> \o l.score \o <<Tab>>
  \o (IF "oldPath" \in DOMAIN l THEN l.oldPath \o <<Tab>> ELSE <<>>)
  \o l.path \o <<Newline>>

RECURSIVE FormatLines(_)
FormatLines(ls) ==
  IF ls = <<>> THEN <<>> ELSE FormatLine(Head(ls)) \o FormatLines(Tail(ls))

ParseInit ==
  /\ lines \in Lists(StatusLines, MaxLines)
  /\ stdout = FormatLines(lines)
  /\ output = <<>>
  /\ records = <<>>
  /\ ppc = "exec"
  /\ rootFolder = FolderNode(<<>>)
  /\ TreeIdle
  /\ ProvIdle
  /\ DiffIdle

\* exec resolves with the trimmed standard output
ParseExecResolve ==
  /\ ppc = "exec"
  /\ output' = Trim(stdout)
  /\ ppc' = "resolved"
  /\ UNCHANGED <<lines, stdout, records, rootFolder, treeVars, provVars, diffVars>>

\* lines 49-70 of getChangedFiles
ParseRecords ==
  /\ ppc = "resolved"
  /\ records' = ParseOutput(output)
  /\ ppc' = "parsed"
  /\ UNCHANGED <<lines, stdout, output, rootFolder, treeVars, provVars, diffVars>>

ParseNext == ParseExecResolve \/ ParseRecords

SpecParse == ParseInit /\ [][ParseNext]_vars

\* C9: one record per line in line order (none for empty output); the status
\* is the leading character of the first field whatever follows it; a record
\* has an oldPath exactly when its status is R or C, and then oldPath is the
\* second field and path the third; otherwise path is the second field.
C9_Parse ==
  ppc = "parsed" =>
    /\ Len(records) = Len(lines)
    /\ \A i \in 1..Len(lines) :
         LET r == records[i]
             l == lines[i]
         IN  /\ r.status = l.code
             /\ ("oldPath" \in DOMAIN r) <=> (r.status \in {"R", "C"})
             /\ r.path = l.path
             /\ ("oldPath" \in DOMAIN r) => r.oldPath = l.oldPath

\* a plain line followed by a scored rename was parsed
C9_Witness ==
  /\ ppc = "parsed"
  /\ Len(records) = 2
  /\ records[1] = [status |-> "M", path |-> <<"a", "/", "b">>]
  /\ records[2] = [status |-> "R", oldPath |-> <<"a">>, path |-> <<"a", "/", "b">>]
  /\ lines[2].score = <<"1", "0", "0">>

-----------------------------------------------------------------------------
(* Spec: the provider's root enumeration, getChildren() -> buildTree() ->  *)
(* getChangedFiles(), suspended at each git command it awaits              *)

\* what git merge-base prints
MergeBaseHash == "c0ffee12"

\* status lines git diff --name-status may print for the provider
QueryLines ==
  { [code |-> "M", score |-> <<>>, path |-> <<"a", "/", "b", "/", "a">>],
    [code |-> "M", score |-> <<>>, path |-> <<"a", "/", "b">>] }

QueryOutputs == { FormatLines(ls) : ls \in Lists(QueryLines, MaxQuery) }

InFlight(b) == builds[b].pc # "idle"

AllIdle == \A b \in 1..MaxBuilds : ~InFlight(b)

FallbackRefMut(requested) == "HEAD"

\* line 41: the comparison point when merge-base failed
FallbackRef(requested) == requested

Init ==
  /\ ParseIdle
  /\ TreeIdle
  /\ DiffIdle
  /\ rootFolder = FolderNode(<<>>)
  /\ baseBranch = "main"
  /\ treeChanged = TRUE
  /\ builds = [b \in 1..MaxBuilds |-> NoBuild]
  /\ lastBuilt = <<>>
  /\ lastDone = <<>>
  /\ lastEvent = NoEvent

\* refresh(): fires onDidChangeTreeData
Refresh ==
  /\ treeChanged' = TRUE
  /\ UNCHANGED <<rootFolder, baseBranch, builds, lastBuilt, lastDone,
                 lastEvent, treeVars, parseVars, diffVars>>

\* setBaseBranch(branch)
SetBaseBranch ==
  /\ \E branch \in Branches : baseBranch' = branch
  /\ treeChanged' = TRUE
  /\ UNCHANGED <<rootFolder, builds, lastBuilt, lastDone, lastEvent,
                 treeVars, parseVars, diffVars>>

\* The view asks for the root's children: getChildren(undefined) runs
\* buildTree up to its await, getChangedFiles up to the merge-base command.
GetChildrenRoot ==
  /\ treeChanged
  /\ \E b \in 1..MaxBuilds :
       /\ ~InFlight(b)
       /\ \A c \in 1..(b - 1) : InFlight(c)
       /\ builds' = [c \in 1..MaxBuilds |->
            IF c = b
            THEN [pc |-> "mergeBase", base |-> baseBranch, attempts |-> 1,
                  mbFailed |-> FALSE, ref |-> "",
                  overlapped |-> \E d \in 1..MaxBuilds : InFlight(d)]
            ELSE IF InFlight(c) THEN [builds[c] EXCEPT !.overlapped = TRUE]
            ELSE builds[c]]
  /\ rootFolder' = FolderNode(<<>>)
  /\ treeChanged' = FALSE
  /\ UNCHANGED <<baseBranch, lastBuilt, lastDone, lastEvent,
                 treeVars, parseVars, diffVars>>

\* git merge-base succeeds: the diff is issued against the merge base
MergeBaseResolve(b) ==
  /\ builds[b].pc = "mergeBase"
  /\ builds' = [builds EXCEPT ![b].pc = "diff", ![b].ref = MergeBaseHash]
  /\ UNCHANGED <<rootFolder, baseBranch, treeChanged, lastBuilt, lastDone,
                 lastEvent, treeVars, parseVars, diffVars>>

\* git merge-base fails: the catch of lines 39-42, then the diff is issued
MergeBaseReject(b) ==
  /\ builds[b].pc = "mergeBase"
  /\ builds' = [builds EXCEPT ![b].pc = "diff", ![b].mbFailed = TRUE,
                              ![b].ref = FallbackRef(builds[b].base)]
  /\ UNCHANGED <<rootFolder, baseBranch, treeChanged, lastBuilt, lastDone,
                 lastEvent, treeVars, parseVars, diffVars>>

\* git diff succeeds: the records are parsed, inserted into this.rootFolder
\* and collapsed (getChildren then returns the root's sorted children)
DiffResolve(b) ==
  /\ builds[b].pc = "diff"
  /\ \E out \in QueryOutputs :
       LET fs == ParseOutput(Trim(out))
       IN  /\ rootFolder' = collapsesingles(InsertAll(rootFolder, fs))
           /\ lastDone' = fs
  /\ lastBuilt' = rootFolder'.children
  /\ lastEvent' = [kind |-> "built", overlapped |-> builds[b].overlapped,
                   warnings |-> 0]
  /\ builds' = [builds EXCEPT ![b] = NoBuild]
  /\ UNCHANGED <<baseBranch, treeChanged, treeVars, parseVars, diffVars>>

\* git diff fails: the catch of lines 133-136 warns and returns
\* (getChildren then returns the root's sorted children)
DiffReject(b) ==
  /\ builds[b].pc = "diff"
  /\ lastEvent' = [kind |-> "failed", overlapped |-> builds[b].overlapped,
                   warnings |-> 1]
  /\ builds' = [builds EXCEPT ![b] = NoBuild]
  /\ UNCHANGED <<rootFolder, baseBranch, treeChanged, lastBuilt, lastDone,
                 treeVars, parseVars, diffVars>>

Next ==
  \/ Refresh
  \/ SetBaseBranch
  \/ GetChildrenRoot
  \/ \E b \in 1..MaxBuilds : MergeBaseResolve(b)
  \/ \E b \in 1..MaxBuilds : MergeBaseReject(b)
  \/ \E b \in 1..MaxBuilds : DiffResolve(b)
  \/ \E b \in 1..MaxBuilds : DiffReject(b)

Spec == Init /\ [][Next]_vars

RecordsShown == { RecordOf(l.node) : l \in LeavesOf(rootFolder) }

\* C1: when the git query of a refresh fails (no other enumeration having
\* overlapped it), the failure is reported once and the root folder holds
\* exactly the children it held after the last successful build.
C1_FailureKeepsTree ==
  (lastEvent.kind = "failed" /\ ~lastEvent.overlapped /\ AllIdle) =>
    /\ lastEvent.warnings = 1
    /\ rootFolder.children = lastBuilt

\* C3: after overlapping root enumerations have all completed, the tree holds
\* exactly the records returned to the build that completed last, and no
\* file is reachable under two folder nodes.
C3_OverlapIsolated ==
  (lastEvent.kind = "built" /\ lastEvent.overlapped /\ AllIdle) =>
    /\ RecordsShown = { lastDone[i] : i \in 1..Len(lastDone) }
    /\ \A l, m \in LeavesOf(rootFolder) :
         l.node.relativePath = m.node.relativePath => l = m

\* C4: when merge-base fails in getChangedFiles, one merge-base attempt has
\* been made, the call goes on to the diff query (it is not rejected), and
\* the diff is issued against the requested base identifier verbatim.
C4_Fallback ==
  \A b \in 1..MaxBuilds :
    builds[b].mbFailed =>
      /\ builds[b].pc = "diff"
      /\ builds[b].attempts = 1
      /\ builds[b].ref = builds[b].base

\* merge-base failed for a base branch set through setBaseBranch
C4_Witness ==
  \E b \in 1..MaxBuilds :
    /\ builds[b].mbFailed
    /\ builds[b].pc = "diff"
    /\ builds[b].base = "dev"

-----------------------------------------------------------------------------
(* SpecDiff: the gitCompare.openDiff command on a node of a built tree *)

DiffRecords ==
  { [status |-> "A", path |-> <<"a">>],
    [status |-> "D", path |-> <<"b">>],
    [status |-> "M", path |-> <<"a", "/", "b">>],
    [status |-> "R", oldPath |-> OldName, path |-> <<"b", "/", "a">>] }

DiffInit ==
  /\ ParseIdle
  /\ TreeIdle
  /\ ProvIdle
  /\ DiffIdle
  /\ \E fs \in Lists(DiffRecords, MaxFiles) :
       rootFolder = collapsesingles(InsertAll(FolderNode(<<>>), fs))

OpenResult(kind, node, ref, base, mbFailed) ==
  [kind |-> kind, path |-> node.relativePath, ref |-> ref, base |-> base,
   mbFailed |-> mbFailed]

\* the command is invoked on something that is not a file node: lines 63-65
OpenDiffIgnored ==
  /\ openDiff.pc = "idle"
  /\ \E n \in FoldersOf(rootFolder) : openResult' = [kind |-> "ignored"]
  /\ UNCHANGED <<openDiff, rootFolder, treeVars, parseVars, provVars>>

\* the command is invoked on a file node: lines 67-84, up to the first await
OpenDiff ==
  /\ openDiff.pc = "idle"
  /\ \E n \in LeavesOf(rootFolder) :
       IF n.node.status = "A"
       THEN /\ openResult' = OpenResult("open", n.node, "worktree", baseBranch, FALSE)
            /\ UNCHANGED openDiff
       ELSE /\ openDiff' = [pc |-> "mergeBaseRef", node |-> n.node,
                            base |-> baseBranch]
            /\ UNCHANGED openResult
  /\ UNCHANGED <<rootFolder, treeVars, parseVars, provVars>>

\* getMergeBaseRef resolves: the base side is opened at the merge base
OpenDiffResolve ==
  /\ openDiff.pc = "mergeBaseRef"
  /\ openResult' = OpenResult(IF openDiff.node.status = "D" THEN "open" ELSE "diff",
                              openDiff.node, MergeBaseHash, openDiff.base, FALSE)
  /\ openDiff' = NoOpen
  /\ UNCHANGED <<rootFolder, treeVars, parseVars, provVars>>

\* getMergeBaseRef rejects: for a deleted file the command's promise rejects
\* (line 77 is outside any try); otherwise the catch of lines 89-91 shows
\* "Failed to open diff"
OpenDiffReject ==
  /\ openDiff.pc = "mergeBaseRef"
  /\ openResult' = OpenResult(IF openDiff.node.status = "D" THEN "raised"
                              ELSE "errorShown",
                              openDiff.node, "", openDiff.base, TRUE)
  /\ openDiff' = NoOpen
  /\ UNCHANGED <<rootFolder, treeVars, parseVars, provVars>>

DiffNext ==
  \/ OpenDiffIgnored
  \/ OpenDiff
  \/ OpenDiffResolve
  \/ OpenDiffReject
  \/ SetBaseBranch

SpecDiff == DiffInit /\ [][DiffNext]_vars

\* C5: when merge-base fails while a diff is opened for a file node, the
\* diff is opened against the base reference itself and no error is raised
\* or shown.
C5_OpenDiffFallback ==
  (openResult.kind # "none" /\ openResult.kind # "ignored" /\ openResult.mbFailed) =>
    /\ openResult.kind \in {"open", "diff"}
    /\ openResult.ref = openResult.base

-----------------------------------------------------------------------------
(* Properties of the tree builder *)

RECURSIVE NodeAt(_, _)
NodeAt(folder, keys) ==
  IF keys = <<>> THEN folder
  ELSE NodeAt(MapGet(folder.children, Head(keys)), Tail(keys))

SingleFolderChild(n) ==
  /\ Len(n.children) = 1
  /\ n.children[1].node.type = "folder"

IsCompound(key) == \E i \in 1..Len(key) : key[i] = Slash

DistinctPaths(fs) ==
  \A i, j \in 1..Len(fs) : i # j => fs[i].path # fs[j].path

Count(arr, x) == Cardinality({ i \in 1..Len(arr) : arr[i] = x })

\* C2: in the built tree every non-root folder is the end of a fully merged
\* chain (it has not exactly one child that is a folder) and its label is the
\* slash-joined chain of segment names, which is its key in its parent.
C2_ChainLabel ==
  pc = "built" =>
    \A f \in FoldersOf(rootFolder) :
      /\ ~SingleFolderChild(f.node)
      /\ FolderLabel(f.node) = f.keys[Len(f.keys)]

\* C6: when the records have pairwise distinct paths, every record is the
\* content of exactly one FileNode reachable from the root of the built tree.
C6_AllFilesShown ==
  (pc = "built" /\ DistinctPaths(files)) =>
    \A i \in 1..Len(files) :
      Cardinality({ l \in LeavesOf(rootFolder) : RecordOf(l.node) = files[i] }) = 1

\* C7: for every FileNode of the built and collapsed tree, the keys from the
\* root to the node joined with "/" give its relativePath, and that path is
\* one of the input paths.
C7_RoundTrip ==
  pc = "built" =>
    \A l \in LeavesOf(rootFolder) :
      /\ Join(l.keys, Slash) = l.node.relativePath
      /\ \E i \in 1..Len(files) : files[i].path = l.node.relativePath

\* a file node below the merged key of a three-folder chain
C7_Witness ==
  /\ pc = "built"
  /\ \E l \in LeavesOf(rootFolder) :
       /\ Len(l.keys) = 2
       /\ Len(Split(l.keys[1], Slash)) = 3

\* C8: the array getChildren returns for a folder is a permutation of the
\* folder's children, every folder before every file, labels non-decreasing
\* within the folders and within the files; the tree is as it was.
C8_Sorted ==
  pc = "listed" =>
    LET kids == Values(NodeAt(rootFolder, element).children)
    IN  /\ Len(sorted) = Len(kids)
        /\ \A i \in 1..Len(kids) : Count(sorted, kids[i]) = Count(kids, kids[i])
        /\ \A i, j \in 1..Len(sorted) :
             i < j =>
               /\ ~(sorted[i].type = "file" /\ sorted[j].type = "folder")
               /\ sorted[i].type = sorted[j].type =>
                    localeCompare(Label(sorted[i]), Label(sorted[j])) <= 0
        /\ rootFolder = firstPass

\* a folder listed before a file whose label sorts first, out of map order
C8_Witness ==
  /\ pc = "listed"
  /\ Len(sorted) = 2
  /\ sorted[1].type = "folder"
  /\ sorted[2].type = "file"
  /\ localeCompare(Label(sorted[2]), Label(sorted[1])) < 0
  /\ sorted # Values(NodeAt(rootFolder, element).children)

\* C10: a second collapse pass changes nothing, and after one pass no
\* non-root folder has exactly one child that is a folder.
C10_Idempotent ==
  pc = "recollapsed" =>
    /\ rootFolder = firstPass
    /\ \A f \in FoldersOf(firstPass) : ~SingleFolderChild(f.node)

\* the second pass ran over a tree in which a three-folder chain was merged
\* and over one in which a chain below a two-child folder was merged
C10_Witness ==
  /\ pc = "recollapsed"
  /\ \E f \in FoldersOf(rootFolder) :
       \/ (Len(f.keys) = 1 /\ Len(Split(f.keys[1], Slash)) = 3)
       \/ (Len(f.keys) = 2 /\ IsCompound(f.keys[2]))

====
